---- MODULE Spec2Model ----
(***************************************************************************)
(* Model of the Redmoon RLE resource-file decoder, parse_rle, of           *)
(* core_compat/src/parser/rle.rs.  The decoder is a sequential function    *)
(* over a byte buffer; the model runs it step by step (one action per read *)
(* or loop iteration) over byte buffers drawn from bounded families.       *)
(* Bytes are the integers 0..255; every multi-byte field is decoded from   *)
(* its bytes the way byteorder's LittleEndian reader does.                 *)
(***************************************************************************)
EXTENDS Integers, Sequences, FiniteSets, TLC

VARIABLES
    data,              \* the input buffer (data: &[u8]), 1-based here
    built,             \* history: the pixel buffers a synthetic input was encoded from
    file_number,       \* the caller's file number
    overflow_checks,   \* build profile: TRUE = debug (overflow panics), FALSE = release (wraps)
    pc,                \* position in parse_rle
    pos,               \* cursor.position()
    total_resources,   \* the sprite count read from the header
    resource_offsets,  \* the offset table read so far
    idx,               \* 0-based index of the offset-table entry being processed
    resource,          \* the Resource under construction
    x, y,              \* the paint cursor of the opcode loop
    pixels,            \* the Paint count being executed
    p,                 \* the Paint loop counter
    entry_pos,         \* byte position of the opcode byte read last (history)
    resources,         \* resource_file.resources
    result             \* what parse_rle returned: none yet, Ok, Err or a panic

vars == <<data, built, file_number, overflow_checks, pc, pos, total_resources,
          resource_offsets, idx, resource, x, y, pixels, p, entry_pos,
          resources, result>>

-----------------------------------------------------------------------------
(* Program constants *)

\* "Resource File\0"
Magic == <<82, 101, 115, 111, 117, 114, 99, 101, 32, 70, 105, 108, 101, 0>>

MagicLen == 14

\* nine u32 header fields
HeaderLen == 36

OversizeDim == 8000

MaxI32 == 2147483647

MinI32 == -MaxI32 - 1

-----------------------------------------------------------------------------
(* Bounds of the explored inputs *)

\* longest opcode stream body (opcodes before the terminator) enumerated
MaxOps == 3

\* largest sprite count of the enumerated offset tables
MaxSprites == 2

\* largest width and height of the canvases encoded for the round trip
MaxDim == 2

-----------------------------------------------------------------------------
(* Cursor reads over the buffer *)

\* read_exact of n bytes succeeds iff n bytes remain at the position
CanRead(at, n) == at + n <= Len(data)

U8At(at) == data[at + 1]

\* byteorder LittleEndian u32 (the model's buffers keep u32 fields below 2^31)
U32At(at) ==
    data[at + 1] + 256 * data[at + 2] + 65536 * data[at + 3]
        + 16777216 * data[at + 4]

\* byteorder LittleEndian i32: two's complement of the same four bytes
I32At(at) ==
    LET b3 == data[at + 4]
        top == IF b3 >= 128 THEN b3 - 256 ELSE b3
    IN  data[at + 1] + 256 * data[at + 2] + 65536 * data[at + 3]
            + 16777216 * top

-----------------------------------------------------------------------------
(* std::str::from_utf8 on a byte sequence *)

IsCont(b) == b >= 128 /\ b <= 191

RECURSIVE Utf8From(_, _)
Utf8From(s, i) ==
    IF i > Len(s) THEN TRUE
    ELSE LET b == s[i]
             has(n) == i + n <= Len(s)
         IN  IF b <= 127 THEN Utf8From(s, i + 1)
             ELSE IF b >= 194 /\ b <= 223
                  THEN has(1) /\ IsCont(s[i + 1]) /\ Utf8From(s, i + 2)
             ELSE IF b = 224
                  THEN has(2) /\ s[i + 1] >= 160 /\ s[i + 1] <= 191
                       /\ IsCont(s[i + 2]) /\ Utf8From(s, i + 3)
             ELSE IF (b >= 225 /\ b <= 236) \/ b = 238 \/ b = 239
                  THEN has(2) /\ IsCont(s[i + 1]) /\ IsCont(s[i + 2])
                       /\ Utf8From(s, i + 3)
             ELSE IF b = 237
                  THEN has(2) /\ s[i + 1] >= 128 /\ s[i + 1] <= 159
                       /\ IsCont(s[i + 2]) /\ Utf8From(s, i + 3)
             ELSE IF b = 240
                  THEN has(3) /\ s[i + 1] >= 144 /\ s[i + 1] <= 191
                       /\ IsCont(s[i + 2]) /\ IsCont(s[i + 3])
                       /\ Utf8From(s, i + 4)
             ELSE IF b >= 241 /\ b <= 243
                  THEN has(3) /\ IsCont(s[i + 1]) /\ IsCont(s[i + 2])
                       /\ IsCont(s[i + 3]) /\ Utf8From(s, i + 4)
             ELSE IF b = 244
                  THEN has(3) /\ s[i + 1] >= 128 /\ s[i + 1] <= 143
                       /\ IsCont(s[i + 2]) /\ IsCont(s[i + 3])
                       /\ Utf8From(s, i + 4)
             ELSE FALSE

from_utf8_ok(s) == Utf8From(s, 1)

-----------------------------------------------------------------------------
(* i32 / usize arithmetic of the opcode loop *)

\* a + b on i32: ovf tells whether it overflows, val is the wrapped result
AddI32(a, b) ==
    LET posOvf == a > 0 /\ b > 0 /\ a > MaxI32 - b
        negOvf == a < 0 /\ b < 0 /\ a < MinI32 - b
    IN  [ovf |-> posOvf \/ negOvf,
         val |-> IF posOvf THEN (a + MinI32) + (b + MinI32)
                 ELSE IF negOvf THEN (a - MinI32) + (b - MinI32)
                 ELSE a + b]

\* a * 2 on i32
TwiceI32(a) ==
    LET posOvf == a > MaxI32 \div 2
        negOvf == a < MinI32 \div 2
    IN  [ovf |-> posOvf \/ negOvf,
         val |-> IF posOvf THEN 2 * (a + MinI32)
                 ELSE IF negOvf THEN 2 * (a - MinI32)
                 ELSE 2 * a]

\* mutant: the division rounds down
HalfI32Floor(d) == d \div 2

\* pixels / 2 on i32: Rust's division truncates toward zero (\div rounds down)
HalfI32(d) == IF d >= 0 THEN d \div 2 ELSE (d + 1) \div 2

\* mutant: a write at x >= width is refused
PaintIndexClipped(xx, yy, width, len, checks) ==
    LET ypart == yy * 2 * width
        inb   == xx >= 0 /\ xx < width /\ ypart + 2 * xx <= len - 2
    IN  [panic |-> ~inb, at |-> IF inb THEN ypart + 2 * xx ELSE 0]

\* mutant: an index outside the canvas is clamped to its last pixel
PaintIndexClamped(xx, yy, width, len, checks) ==
    LET addr == yy * 2 * width + 2 * xx
    IN  [panic |-> len < 2,
         at    |-> IF addr >= 0 /\ addr <= len - 2 THEN addr
                   ELSE IF len >= 2 THEN len - 2 ELSE 0]

\* The canvas index of a Paint write:
\*     let _y = y * 2 * resource.width as i32;  let _x = x * 2;
\*     let idx: usize = _y as usize + _x as usize;
\* A negative _x sign-extends to 2^64 + _x, so the usize addition overflows
\* exactly when _y + _x >= 0: a debug build panics there, a release build wraps
\* to _y + _x.  Without overflow and with _x < 0 the index is 2^64 + _y + _x,
\* beyond any canvas.  panic: the write panics (overflow check or index out of
\* bounds); at: the 0-based index written otherwise.
\* (y * 2 * width stays far below 2^31 here: y counts Next-line opcodes of the
\* buffer and width < 8000.)
PaintIndex(xx, yy, width, len, checks) ==
    LET ypart == yy * 2 * width
        tw    == TwiceI32(xx)
        xpart == tw.val
        wraps == xpart < 0 /\ ypart + xpart >= 0
        huge  == xpart < 0 /\ ypart + xpart < 0
        inb   == IF xpart >= 0
                 THEN xpart <= len - 2 /\ ypart <= len - 2 - xpart
                 ELSE wraps /\ ypart + xpart <= len - 2
    IN  [panic |-> (checks /\ (tw.ovf \/ wraps)) \/ huge \/ ~inb,
         at    |-> IF inb THEN ypart + xpart ELSE 0]

-----------------------------------------------------------------------------
(* Records *)

\* Resource::new(): every field zero, no pixels
NewResource ==
    [file_num |-> 0, index |-> 0, offset |-> 0, len |-> 0, offset_x |-> 0,
     offset_y |-> 0, width |-> 0, height |-> 0, unknown_1 |-> 0,
     unknown_2 |-> 0, unknown_3 |-> 0, unknown_4 |-> 0, image_raw |-> <<>>]

NoResult == [kind |-> "none", error |-> "none", at |-> 0, resources |-> <<>>]

\* Ok(resource_file)
OkResult(rs) == [kind |-> "Ok", error |-> "none", at |-> 0, resources |-> rs]

\* Err(e): no ResourceFile is returned
ErrResult(e, at) == [kind |-> "Err", error |-> e, at |-> at, resources |-> <<>>]

\* a panic unwinds out of parse_rle: nothing is returned
PanicResult == [kind |-> "panic", error |-> "none", at |-> 0, resources |-> <<>>]

Zeros(n) == [i \in 1..n |-> 0]

-----------------------------------------------------------------------------
(* The explored input buffers, laid out as the decoder's reads expect:      *)
(* identifier, reserved u32, sprite count, offset table, then the sprite   *)
(* blocks (36-byte header followed by the opcode stream).                  *)

\* little-endian bytes of a u32 below 2^31
LE32(n) ==
    <<n % 256, (n \div 256) % 256, (n \div 65536) % 256, (n \div 16777216) % 256>>

\* little-endian two's-complement bytes of an i32
LEI32(n) ==
    IF n >= 0 THEN LE32(n)
    ELSE LET m == n - MinI32
         IN  <<m % 256, (m \div 256) % 256, (m \div 65536) % 256,
               ((m \div 16777216) % 256) + 128>>

RECURSIVE Flatten(_)
Flatten(ss) == IF ss = <<>> THEN <<>> ELSE Head(ss) \o Flatten(Tail(ss))

OpEnd == <<0>>

\* Paint of the pixels pxs, each a <<lo, hi>> pair
OpPaint(pxs) == <<1>> \o LE32(Len(pxs)) \o Flatten(pxs)

OpMoveX(d) == <<2>> \o LEI32(d)

OpNextLine == <<3>>

OpUnknown == <<255>>

PixelA == <<170, 187>>

PixelB == <<204, 221>>

\* header of a sprite block: len, offset_x, offset_y, width, height, 4 reserved
HeaderBytes(len, w, h) ==
    LE32(len) \o LE32(5) \o LE32(6) \o LE32(w) \o LE32(h)
        \o LE32(7) \o LE32(8) \o LE32(9) \o LE32(10)

Block(w, h, stream) == HeaderBytes(Len(stream), w, h) \o stream

\* byte offset of block k when the blocks follow a table of n entries
RECURSIVE BlockOffset(_, _, _)
BlockOffset(n, blocks, k) ==
    IF k = 1 THEN MagicLen + 8 + 4 * n
    ELSE BlockOffset(n, blocks, k - 1) + Len(blocks[k - 1])

\* a container whose i-th table entry is 0 (kinds[i] = 0) or the offset of
\* block kinds[i]
Container(kinds, blocks) ==
    Magic \o LE32(0) \o LE32(Len(kinds))
        \o Flatten([i \in 1..Len(kinds) |->
                       IF kinds[i] = 0 THEN LE32(0)
                       ELSE LE32(BlockOffset(Len(kinds), blocks, kinds[i]))])
        \o Flatten(blocks)

\* opcode streams: up to MaxOps opcodes, then End, an unknown opcode or nothing
OpTokens ==
    {OpPaint(<<PixelA>>), OpPaint(<<PixelA, PixelB>>), OpMoveX(4), OpMoveX(-3),
     OpNextLine}

RECURSIVE Bodies(_)
Bodies(n) ==
    IF n = 0 THEN {<<>>}
    ELSE Bodies(n - 1) \cup {b \o t : b \in Bodies(n - 1), t \in OpTokens}

Streams == {b \o t : b \in Bodies(MaxOps), t \in {OpEnd, OpUnknown, <<>>}}

Dims ==
    {<<1, 1>>, <<2, 1>>, <<1, 2>>, <<2, 2>>, <<0, 1>>,
     <<OversizeDim, 1>>, <<1, OversizeDim>>, <<OversizeDim - 1, 0>>}

\* one sprite, every stream on every canvas
StreamInputs ==
    {Container(<<1>>, <<Block(d[1], d[2], st)>>) : d \in Dims, st \in Streams}

\* tables of up to MaxSprites entries over two blocks and the zero entry
GoodBlock == Block(1, 1, OpPaint(<<PixelB>>) \o OpEnd)

FirstBlocks ==
    {Block(2, 1, OpPaint(<<PixelA, PixelB>>) \o OpEnd),
     Block(OversizeDim, 2, OpUnknown),
     Block(2, OversizeDim + 1, OpPaint(<<PixelA>>)),
     Block(1, 1, OpNextLine \o OpUnknown),
     Block(1, 1, OpPaint(<<PixelA, PixelB>>) \o OpEnd),
     Block(OversizeDim - 1, 1, OpMoveX(2 * (OversizeDim - 2))
                                   \o OpPaint(<<PixelA>>) \o OpEnd)}

Tables == UNION {[1..n -> 0..2] : n \in 0..MaxSprites}

TableInputs ==
    {Container(t, <<a, GoodBlock>>) : t \in Tables, a \in FirstBlocks}

\* offsets [0, 0, 500]: one sprite at byte 500
PaddedInput ==
    LET head == Magic \o LE32(0) \o LE32(3) \o LE32(0) \o LE32(0) \o LE32(500)
    IN  head \o [i \in 1..(500 - Len(head)) |-> 0]
             \o Block(2, 1, OpPaint(<<PixelA, PixelB>>) \o OpEnd)

\* every prefix of one two-sprite container
CutSource ==
    Container(<<1, 2>>,
              <<Block(2, 2, OpPaint(<<PixelA, PixelB>>) \o OpMoveX(-4)
                                \o OpNextLine \o OpPaint(<<PixelB>>) \o OpEnd),
                GoodBlock>>)

CutInputs == {SubSeq(CutSource, 1, n) : n \in 0..Len(CutSource)}

\* identifiers that differ from the magic in one or two bytes
IdentBytes == {0, 10, 65, 128, 169, 195, 237, 244, 255}

IdentInputs ==
    {[Magic EXCEPT ![i] = b, ![MagicLen] = c] \o rest :
        i \in {1, MagicLen - 1, MagicLen}, b \in IdentBytes, c \in IdentBytes,
        rest \in {LE32(0) \o LE32(0), <<1, 255>>, <<>>}}

\* Synthetic containers: a canvas of w x h pixels encoded as an opcode stream
\* in one of three ways, next to a second sprite holding the single PixelB.
Colours == {<<0, 0>>, PixelA}

Canvases(w, h) == [1..(w * h) -> Colours]

\* row by row: Paint the row, then Move-X back to column 0 and Next-line
RECURSIVE EncodeRows(_, _, _, _)
EncodeRows(w, h, px, r) ==
    IF r >= h THEN OpEnd
    ELSE OpPaint(SubSeq(px, r * w + 1, r * w + w))
             \o (IF r < h - 1 THEN OpMoveX(-2 * w) \o OpNextLine ELSE <<>>)
             \o EncodeRows(w, h, px, r + 1)

\* one Paint of all w*h pixels, running over the row ends
EncodeFlat(w, h, px) == OpPaint(px) \o OpEnd

\* pixel by pixel: Move-X over a zero pixel, Paint any other; Next-line first,
\* then Move-X back, between rows
RECURSIVE EncodeSparse(_, _, _, _)
EncodeSparse(w, h, px, k) ==
    IF k > w * h THEN OpEnd
    ELSE (IF px[k] = <<0, 0>> THEN OpMoveX(2) ELSE OpPaint(<<px[k]>>))
             \o (IF k % w = 0 /\ k < w * h
                 THEN OpNextLine \o OpMoveX(-2 * w) ELSE <<>>)
             \o EncodeSparse(w, h, px, k + 1)

Encodings(w, h, px) ==
    {EncodeRows(w, h, px, 0), EncodeFlat(w, h, px), EncodeSparse(w, h, px, 1)}

RoundTripTables == {<<0, 1>>, <<2, 1>>}

NotBuilt == [wellformed |-> FALSE, pixels |-> <<>>]

\* pixels[i]: the pixel buffer table entry i was encoded from (<<>> for entry 0)
BuiltFrom(t, px) ==
    [wellformed |-> TRUE,
     pixels |-> [i \in 1..Len(t) |->
                    IF t[i] = 1 THEN Flatten(px)
                    ELSE IF t[i] = 2 THEN PixelB ELSE <<>>]]

RoundTripOf(w, h) ==
    UNION {{[data |-> Container(t, <<Block(w, h, st), GoodBlock>>),
             built |-> BuiltFrom(t, px)] :
               st \in Encodings(w, h, px), t \in RoundTripTables} :
           px \in Canvases(w, h)}

RoundTripInputs ==
    UNION {RoundTripOf(d[1], d[2]) : d \in (0..MaxDim) \X (0..MaxDim)}

\* two Move-X opcodes, then a Paint, on a 4 x 1 canvas
MoveDeltas == {4, 3, -3, -1, 1, -4}

MoveInputs ==
    {Container(<<1>>, <<Block(4, 1, OpMoveX(a) \o OpMoveX(b)
                                       \o OpPaint(<<PixelA>>) \o OpEnd)>>) :
        a \in MoveDeltas, b \in MoveDeltas}

\* Move-X deltas at the ends of the i32 range
ExtremeInputs ==
    {Container(<<1>>, <<Block(1, 1, OpMoveX(d) \o OpMoveX(d) \o OpMoveX(d)
                                       \o OpEnd)>>) :
        d \in {MaxI32, -MaxI32, MinI32}}
        \cup {Container(<<1>>, <<Block(1, 1, OpMoveX(MaxI32)
                                       \o OpPaint(<<PixelA>>) \o OpEnd)>>)}

Inputs ==
    {[data |-> d, built |-> NotBuilt] :
        d \in StreamInputs \cup TableInputs \cup CutInputs \cup IdentInputs
                 \cup MoveInputs \cup ExtremeInputs \cup {PaddedInput}}
        \cup RoundTripInputs

FileNumbers == {0, 42}

Init ==
    /\ \E inp \in Inputs : data = inp.data /\ built = inp.built
    /\ file_number \in FileNumbers
    /\ overflow_checks \in BOOLEAN
    /\ pc = "file_type"
    /\ pos = 0
    /\ total_resources = 0
    /\ resource_offsets = <<>>
    /\ idx = 0
    /\ resource = NewResource
    /\ x = 0
    /\ y = 0
    /\ pixels = 0
    /\ p = 0
    /\ entry_pos = 0
    /\ resources = <<>>
    /\ result = NoResult

-----------------------------------------------------------------------------
(* parse_rle, step by step *)

Return(r) ==
    /\ pc' = "done"
    /\ result' = r

\* mutant: only the 13 characters are compared, not the terminating zero
FileTypeCheckNoTerminator(d) ==
    IF Len(d) < MagicLen THEN "MissingRleIdentifier"
    ELSE IF ~from_utf8_ok(SubSeq(d, 1, MagicLen)) THEN "Utf8"
    ELSE IF SubSeq(d, 1, MagicLen - 1) # SubSeq(Magic, 1, MagicLen - 1)
         THEN "MissingRleIdentifier"
    ELSE "ok"

\* lines 21-31: "ok", or the error the identifier check returns
FileTypeCheck(d) ==
    IF Len(d) < MagicLen THEN "MissingRleIdentifier"
    ELSE IF ~from_utf8_ok(SubSeq(d, 1, MagicLen)) THEN "Utf8"
    ELSE IF SubSeq(d, 1, MagicLen) # Magic THEN "MissingRleIdentifier"
    ELSE "ok"

\* lines 21-34: the identifier check, then the seek past the identifier
CheckFileType ==
    /\ pc = "file_type"
    /\ IF FileTypeCheck(data) = "ok"
       THEN pc' = "unknown_1" /\ pos' = MagicLen /\ UNCHANGED result
       ELSE Return(ErrResult(FileTypeCheck(data), 0)) /\ UNCHANGED pos
    /\ UNCHANGED <<data, built, file_number, overflow_checks, total_resources,
                   resource_offsets, idx, resource, x, y, pixels, p,
                   entry_pos, resources>>

\* lines 36-37: the reserved field
ReadUnknown1 ==
    /\ pc = "unknown_1"
    /\ IF CanRead(pos, 4)
       THEN pc' = "total_resources" /\ pos' = pos + 4 /\ UNCHANGED result
       ELSE Return(ErrResult("Io", 0)) /\ UNCHANGED pos
    /\ UNCHANGED <<data, built, file_number, overflow_checks, total_resources,
                   resource_offsets, idx, resource, x, y, pixels, p,
                   entry_pos, resources>>

\* lines 39-40: the sprite count
ReadTotalResources ==
    /\ pc = "total_resources"
    /\ IF CanRead(pos, 4)
       THEN /\ total_resources' = U32At(pos)
            /\ pc' = "resource_offsets"
            /\ pos' = pos + 4
            /\ UNCHANGED result
       ELSE Return(ErrResult("Io", 0)) /\ UNCHANGED <<pos, total_resources>>
    /\ UNCHANGED <<data, built, file_number, overflow_checks, resource_offsets, idx,
                   resource, x, y, pixels, p, entry_pos, resources>>

\* lines 43-47: one iteration of the offset-table loop, or its exit
ReadResourceOffset ==
    /\ pc = "resource_offsets"
    /\ IF Len(resource_offsets) = total_resources
       THEN pc' = "resources" /\ UNCHANGED <<pos, resource_offsets, result>>
       ELSE IF CanRead(pos, 4)
       THEN /\ resource_offsets' = Append(resource_offsets, U32At(pos))
            /\ pos' = pos + 4
            /\ UNCHANGED <<pc, result>>
       ELSE Return(ErrResult("Io", 0)) /\ UNCHANGED <<pos, resource_offsets>>
    /\ UNCHANGED <<data, built, file_number, overflow_checks, total_resources, idx,
                   resource, x, y, pixels, p, entry_pos, resources>>

\* mutant: the index is the sprite's position in the result collection
StartResourceRenumbered(i, offset) ==
    [NewResource EXCEPT !.file_num = file_number, !.index = Len(resources),
                        !.offset = offset]

\* lines 62-68: a new Resource tagged with the file number, index and offset
StartResource(i, offset) ==
    [NewResource EXCEPT !.file_num = file_number, !.index = i,
                        !.offset = offset]

\* lines 51-68 and 142: the head of the loop over the offset table
NextResource ==
    /\ pc = "resources"
    /\ IF idx = Len(resource_offsets)
       THEN Return(OkResult(resources)) /\ UNCHANGED <<pos, idx, resource>>
       ELSE LET offset == resource_offsets[idx + 1]
            IN  IF offset = 0
                THEN idx' = idx + 1 /\ UNCHANGED <<pc, pos, resource, result>>
                ELSE /\ pos' = offset
                     /\ resource' = StartResource(idx, offset)
                     /\ pc' = "header"
                     /\ UNCHANGED <<idx, result>>
    /\ UNCHANGED <<data, built, file_number, overflow_checks, total_resources,
                   resource_offsets, x, y, pixels, p, entry_pos, resources>>

\* lines 70-79: the nine header fields
ReadHeader ==
    /\ pc = "header"
    /\ IF CanRead(pos, HeaderLen)
       THEN /\ resource' = [resource EXCEPT
                               !.len = U32At(pos),
                               !.offset_x = U32At(pos + 4),
                               !.offset_y = U32At(pos + 8),
                               !.width = U32At(pos + 12),
                               !.height = U32At(pos + 16),
                               !.unknown_1 = U32At(pos + 20),
                               !.unknown_2 = U32At(pos + 24),
                               !.unknown_3 = U32At(pos + 28),
                               !.unknown_4 = U32At(pos + 32)]
            /\ pos' = pos + HeaderLen
            /\ pc' = "image_raw"
            /\ UNCHANGED result
       ELSE Return(ErrResult("Io", 0)) /\ UNCHANGED <<pos, resource>>
    /\ UNCHANGED <<data, built, file_number, overflow_checks, total_resources,
                   resource_offsets, idx, x, y, pixels, p, entry_pos,
                   resources>>

\* mutant: the canvas starts as 0xFF bytes
CanvasFilled(width, height) == [i \in 1..(2 * (width * height)) |-> 255]

\* mutant: one byte per pixel
CanvasOneByte(width, height) == Zeros(width * height)

\* lines 83-87: two zero bytes for each of width * height pixels
Canvas(width, height) == Zeros(2 * (width * height))

\* mutant: the oversize case falls through into the opcode loop
FillImageRawDecodesOversize ==
    /\ pc = "image_raw"
    /\ resource' = [resource EXCEPT !.image_raw =
                       IF resource.width < OversizeDim
                              /\ resource.height < OversizeDim
                       THEN Canvas(resource.width, resource.height)
                       ELSE <<0, 0>>]
    /\ x' = 0
    /\ y' = 0
    /\ pc' = "image"
    /\ UNCHANGED <<data, built, file_number, overflow_checks, pos,
                   total_resources, resource_offsets, idx, pixels, p,
                   entry_pos, resources, result>>

\* mutant: the paint cursor is not reset for a new sprite
FillImageRawKeepsCursor ==
    /\ pc = "image_raw"
    /\ IF resource.width < OversizeDim /\ resource.height < OversizeDim
       THEN /\ resource' = [resource EXCEPT !.image_raw =
                               Canvas(resource.width, resource.height)]
            /\ pc' = "image"
            /\ UNCHANGED idx
       ELSE /\ resource' = [resource EXCEPT !.image_raw = <<0, 0>>]
            /\ idx' = idx + 1
            /\ pc' = "resources"
    /\ UNCHANGED <<data, built, file_number, overflow_checks, pos,
                   total_resources, resource_offsets, x, y, pixels, p,
                   entry_pos, resources, result>>

\* lines 81-99: the canvas, or the oversize case, which continues the outer loop
FillImageRaw ==
    /\ pc = "image_raw"
    /\ IF resource.width < OversizeDim /\ resource.height < OversizeDim
       THEN /\ resource' = [resource EXCEPT !.image_raw =
                               resource.image_raw
                                   \o Canvas(resource.width, resource.height)]
            /\ x' = 0
            /\ y' = 0
            /\ pc' = "image"
            /\ UNCHANGED idx
       ELSE /\ resource' = [resource EXCEPT !.image_raw =
                               resource.image_raw \o <<0, 0>>]
            /\ idx' = idx + 1
            /\ pc' = "resources"
            /\ UNCHANGED <<x, y>>
    /\ UNCHANGED <<data, built, file_number, overflow_checks, pos, total_resources,
                   resource_offsets, pixels, p, entry_pos, resources, result>>

\* mutant: the sprite is inserted at the front of the collection
OnEndPrepends ==
    /\ resources' = <<resource>> \o resources
    /\ idx' = idx + 1
    /\ pos' = pos + 1
    /\ pc' = "resources"
    /\ UNCHANGED <<x, y, pixels, p, result>>

\* lines 106-109 and 140: End pushes the sprite and goes on with the table
OnEnd ==
    /\ resources' = Append(resources, resource)
    /\ idx' = idx + 1
    /\ pos' = pos + 1
    /\ pc' = "resources"
    /\ UNCHANGED <<x, y, pixels, p, result>>

\* lines 110-113: Paint reads its count and enters the pixel loop
OnPaint ==
    IF CanRead(pos + 1, 4)
    THEN /\ pixels' = U32At(pos + 1)
         /\ p' = 0
         /\ pos' = pos + 5
         /\ pc' = IF U32At(pos + 1) = 0 THEN "image" ELSE "paint"
         /\ UNCHANGED <<idx, x, y, resources, result>>
    ELSE /\ Return(ErrResult("Io", 0))
         /\ UNCHANGED <<pos, idx, x, y, pixels, p, resources>>

\* lines 126-130: Move-X
OnMoveX ==
    IF CanRead(pos + 1, 4)
    THEN LET sum == AddI32(x, HalfI32(I32At(pos + 1)))
         IN  IF sum.ovf /\ overflow_checks
             THEN /\ Return(PanicResult)
                  /\ UNCHANGED <<pos, idx, x, y, pixels, p, resources>>
             ELSE /\ x' = sum.val
                  /\ pos' = pos + 5
                  /\ UNCHANGED <<pc, idx, y, pixels, p, resources, result>>
    ELSE /\ Return(ErrResult("Io", 0))
         /\ UNCHANGED <<pos, idx, x, y, pixels, p, resources>>

\* mutant: Next-line also returns to column 0
OnNextLineResetsX ==
    /\ y' = y + 1
    /\ x' = 0
    /\ pos' = pos + 1
    /\ UNCHANGED <<pc, idx, pixels, p, resources, result>>

\* lines 131-134: Next-line
OnNextLine ==
    /\ y' = y + 1
    /\ pos' = pos + 1
    /\ UNCHANGED <<pc, idx, x, pixels, p, resources, result>>

\* mutant: an unknown opcode abandons the sprite and goes on with the table
OnUnknownSkipsSprite ==
    /\ pos' = pos + 1
    /\ idx' = idx + 1
    /\ pc' = "resources"
    /\ UNCHANGED <<x, y, pixels, p, resources, result>>

\* lines 135-137: any other opcode; the cursor already stands after the byte
OnUnknown ==
    /\ pos' = pos + 1
    /\ Return(ErrResult("UnknownOffsetTypeAt", pos + 1))
    /\ UNCHANGED <<idx, x, y, pixels, p, resources>>

\* lines 100-105: read one opcode byte and dispatch
ReadEntryType ==
    /\ pc = "image"
    /\ entry_pos' = pos
    /\ IF ~CanRead(pos, 1)
       THEN \* read_u8().unwrap() on an exhausted buffer
            /\ Return(PanicResult)
            /\ UNCHANGED <<pos, idx, x, y, pixels, p, resources>>
       ELSE LET entry_type == U8At(pos)
            IN  CASE entry_type = 0 -> OnEnd
                  [] entry_type = 1 -> OnPaint
                  [] entry_type = 2 -> OnMoveX
                  [] entry_type = 3 -> OnNextLine
                  [] OTHER -> OnUnknown
    /\ UNCHANGED <<data, built, file_number, overflow_checks, total_resources,
                   resource_offsets, resource>>

\* mutant: high byte first
WritePixelSwapped(image_raw, at, data_lo, data_hi) ==
    [image_raw EXCEPT ![at + 1] = data_hi, ![at + 2] = data_lo]

\* lines 120-121: the two bytes of a pixel, low then high, at index at
WritePixel(image_raw, at, data_lo, data_hi) ==
    [image_raw EXCEPT ![at + 1] = data_lo, ![at + 2] = data_hi]

\* lines 113-124: one iteration of the Paint loop
PaintPixel ==
    /\ pc = "paint"
    /\ IF ~CanRead(pos, 2)
       THEN /\ Return(ErrResult("Io", 0))
            /\ UNCHANGED <<pos, resource, x, p>>
       ELSE LET data_lo == U8At(pos)
                data_hi == U8At(pos + 1)
                at == PaintIndex(x, y, resource.width,
                                 Len(resource.image_raw), overflow_checks)
                nx == AddI32(x, 1)
            IN  IF at.panic \/ (nx.ovf /\ overflow_checks)
                THEN /\ Return(PanicResult)
                     /\ UNCHANGED <<pos, resource, x, p>>
                ELSE /\ resource' = [resource EXCEPT !.image_raw =
                                        WritePixel(resource.image_raw, at.at,
                                                   data_lo, data_hi)]
                     /\ x' = nx.val
                     /\ p' = p + 1
                     /\ pos' = pos + 2
                     /\ pc' = IF p + 1 = pixels THEN "image" ELSE "paint"
                     /\ UNCHANGED result
    /\ UNCHANGED <<data, built, file_number, overflow_checks, total_resources,
                   resource_offsets, idx, y, pixels, entry_pos, resources>>

Next ==
    \/ CheckFileType
    \/ ReadUnknown1
    \/ ReadTotalResources
    \/ ReadResourceOffset
    \/ NextResource
    \/ ReadHeader
    \/ FillImageRaw
    \/ ReadEntryType
    \/ PaintPixel

Spec == Init /\ [][Next]_vars

-----------------------------------------------------------------------------
(* Properties *)

\* The read the decoder is about to perform runs past the end of the buffer.
ShortRead ==
    \/ pc \in {"unknown_1", "total_resources"} /\ ~CanRead(pos, 4)
    \/ pc = "resource_offsets" /\ Len(resource_offsets) < total_resources
           /\ ~CanRead(pos, 4)
    \/ pc = "header" /\ ~CanRead(pos, HeaderLen)
    \/ pc = "image" /\ ~CanRead(pos, 1)
    \/ pc = "image" /\ CanRead(pos, 1) /\ U8At(pos) \in {1, 2}
           /\ ~CanRead(pos + 1, 4)
    \/ pc = "paint" /\ ~CanRead(pos, 2)

\* The opcode byte the interpreter is about to read is none of 0, 1, 2, 3.
UnknownEntry == pc = "image" /\ CanRead(pos, 1) /\ U8At(pos) \notin 0..3

Truncated(r) == r.kind = "Err" /\ r.error = "Io"

\* C1 (as claimed): every read past the end of the buffer, the opcode byte's
\* included, makes parse_rle return the truncation error.
C1_ShortReadIsTruncationError ==
    [][ShortRead => pc' = "done" /\ Truncated(result')]_vars

\* the entries of the offset table whose sprite header is an oversize one
IsOversizeEntry(k) ==
    /\ resource_offsets[k] # 0
    /\ CanRead(resource_offsets[k], HeaderLen)
    /\ \/ U32At(resource_offsets[k] + 12) >= OversizeDim
       \/ U32At(resource_offsets[k] + 16) >= OversizeDim

\* C2 (as claimed): a returned Container holds, for every table entry whose
\* header has width >= 8000 or height >= 8000, a Sprite with a 2-byte pixels
\* buffer.
C2_OversizeSpriteReturned ==
    result.kind = "Ok" =>
        \A k \in 1..Len(resource_offsets) :
            IsOversizeEntry(k) =>
                \E j \in 1..Len(result.resources) :
                    /\ result.resources[j].index = k - 1
                    /\ Len(result.resources[j].image_raw) = 2

\* C3 (as claimed): the offset carried by the unknown-opcode error is the byte
\* position of the opcode byte itself.
C3_UnknownOpcodeOffset ==
    (result.kind = "Err" /\ result.error = "UnknownOffsetTypeAt")
        => result.at = entry_pos

\* C4: a failing read or an unknown opcode ends the decode at once with no
\* Container, whatever was decoded before; a Container is returned only after
\* the whole offset table was processed.
C4_FailureReturnsNoContainer ==
    /\ [][(ShortRead \/ UnknownEntry) =>
            /\ pc' = "done"
            /\ result'.kind \in {"Err", "panic"}
            /\ result'.resources = <<>>]_vars
    /\ [](result.kind = "Ok" =>
            /\ Len(resource_offsets) = total_resources
            /\ idx = total_resources
            /\ result.resources = resources)

C4_Witness ==
    /\ result.kind = "Err"
    /\ Len(resources) >= 1
    /\ idx >= 1

\* the sprite count of a buffer that passes the identifier check
HasCount(d) == Len(d) >= MagicLen + 8 /\ SubSeq(d, 1, MagicLen) = Magic

\* C5: a zero table entry never yields a Sprite; a Sprite is pushed only for
\* the non-zero entry being processed and carries that entry's 0-based table
\* position as index; offsets [0, 0, 500] give one Sprite of index 2; a table
\* with N = 0 decodes to an empty Container.
C5_IndexIsTablePosition ==
    /\ [][resources' # resources =>
            /\ resources' = Append(resources, resource)
            /\ resource.index = idx
            /\ idx < Len(resource_offsets)
            /\ resource_offsets[idx + 1] # 0
            /\ resource.offset = resource_offsets[idx + 1]]_vars
    /\ [](\A j \in 1..Len(resources) :
            /\ resources[j].index < Len(resource_offsets)
            /\ resource_offsets[resources[j].index + 1] # 0)
    /\ []((pc = "done" /\ data = PaddedInput) =>
            /\ result.kind = "Ok"
            /\ Len(result.resources) = 1
            /\ result.resources[1].index = 2)
    /\ []((pc = "done" /\ HasCount(data) /\ U32At(MagicLen + 4) = 0) =>
            result = OkResult(<<>>))

C5_Witness ==
    /\ result.kind = "Ok"
    /\ Len(resource_offsets) = 2
    /\ resource_offsets[1] = 0
    /\ Len(result.resources) = 1
    /\ result.resources[1].index = 1

\* the literal canvas address of the pixel the Paint loop is about to write
LiteralAddress == y * 2 * resource.width + x * 2

\* the Paint loop is about to write a pixel at or beyond the end of its row
RowOverflow == pc = "paint" /\ CanRead(pos, 2) /\ x >= resource.width

ExampleStream == <<1, 2, 0, 0, 0, 170, 187, 204, 221, 0>>

ExampleInput == Container(<<1>>, <<Block(2, 1, ExampleStream)>>)

C8_CanvasLength ==
    /\ \A j \in 1..Len(result.resources) :
          LET r == result.resources[j]
          IN  (r.width < OversizeDim /\ r.height < OversizeDim) =>
                  Len(r.image_raw) = r.width * r.height * 2
    /\ pc \in {"image", "paint"} =>
          Len(resource.image_raw) = resource.width * resource.height * 2

C8_Witness ==
    /\ result.kind = "Ok"
    /\ \E j \in 1..Len(result.resources) :
          /\ result.resources[j].width = 2
          /\ result.resources[j].height = 2
          /\ result.resources[j].image_raw # Zeros(8)
    /\ y = 1

\* C9: a container encoded from known pixel buffers (row by row, as one flat
\* Paint, or pixel by pixel with Move-X over zero pixels) decodes successfully
\* to one sprite per non-zero table entry, each with exactly the pixel buffer
\* its entry was encoded from.
C9_RoundTrip ==
    (built.wellformed /\ pc = "done") =>
        /\ result.kind = "Ok"
        /\ Len(result.resources)
               = Cardinality({i \in 1..Len(built.pixels) : resource_offsets[i] # 0})
        /\ \A j \in 1..Len(result.resources) :
              result.resources[j].image_raw
                  = built.pixels[result.resources[j].index + 1]

C9_Witness ==
    /\ built.wellformed
    /\ result.kind = "Ok"
    /\ \E j \in 1..Len(result.resources) :
          result.resources[j].image_raw = <<0, 0>> \o PixelA \o PixelA \o <<0, 0>>

\* the buffer is shorter than 14 bytes or does not start with the magic
BadIdentifier(d) == Len(d) < MagicLen \/ SubSeq(d, 1, MagicLen) # Magic

MoveXStep == pc = "image" /\ CanRead(pos, 5) /\ U8At(pos) = 2

\* d / 2 rounded toward zero
TowardZeroHalf(d) ==
    IF d % 2 = 0 THEN d \div 2
    ELSE IF d > 0 THEN (d - 1) \div 2 ELSE (d + 1) \div 2

\* a + b is a signed 32-bit value
FitsI32(a, b) ==
    /\ b > 0 => a <= MaxI32 - b
    /\ b < 0 => a >= MinI32 - b

\* what Move-X with delta d does to the interpreter's state
MoveXBy(d) ==
    /\ pc' = "image"
    /\ result' = NoResult
    /\ x' = x + TowardZeroHalf(d)
    /\ y' = y
    /\ resource' = resource
    /\ pos' = pos + 5

\* C11 (as claimed): every Move-X sets x to x + D/2, rounded toward zero, and
\* changes neither y nor the canvas.
C11_MoveXAddsHalfDelta ==
    [][MoveXStep =>
          /\ FitsI32(x, TowardZeroHalf(I32At(pos + 1)))
          /\ MoveXBy(I32At(pos + 1))]_vars

\* C11 (amended): every Move-X whose x + D/2 is a signed 32-bit value sets x
\* to it (4 gives +2, 3 gives +1, -3 gives -1, -1 gives 0) and changes neither
\* y nor the canvas.
C11_MoveXAddsHalfDeltaInRange ==
    [][(MoveXStep /\ FitsI32(x, TowardZeroHalf(I32At(pos + 1)))) =>
          /\ MoveXBy(I32At(pos + 1))
          /\ SubSeq(data, pos + 2, pos + 5) = <<4, 0, 0, 0>> => x' = x + 2
          /\ SubSeq(data, pos + 2, pos + 5) = <<3, 0, 0, 0>> => x' = x + 1
          /\ SubSeq(data, pos + 2, pos + 5) = <<253, 255, 255, 255>>
                => x' = x - 1
          /\ SubSeq(data, pos + 2, pos + 5) = <<255, 255, 255, 255>>
                => x' = x]_vars

C11_Witness ==
    /\ pc = "image"
    /\ pos = entry_pos + 5
    /\ SubSeq(data, entry_pos + 1, entry_pos + 5) = <<2, 253, 255, 255, 255>>
    /\ SubSeq(data, entry_pos - 4, entry_pos) = <<2, 255, 255, 255, 255>>
    /\ x = -1

\* the interpreter is about to execute a Next-line
NextLineStep == pc = "image" /\ CanRead(pos, 1) /\ U8At(pos) = 3

\* Paint one pixel, Next-line, Paint one pixel, End on a 2 x 2 canvas
NextLineInput ==
    Container(<<1>>, <<Block(2, 2, <<1, 1, 0, 0, 0, 170, 187, 3,
                                     1, 1, 0, 0, 0, 170, 187, 0>>)>>)

\* C12: Next-line adds exactly 1 to y and changes neither x nor the canvas, so
\* a Paint after it starts at the x the previous row's painting ended at.
C12_NextLineKeepsX ==
    /\ [][NextLineStep =>
            /\ pc' = "image"
            /\ result' = NoResult
            /\ y' = y + 1
            /\ x' = x
            /\ resource' = resource
            /\ pos' = pos + 1]_vars
    /\ []((pc = "done" /\ data = NextLineInput) =>
            /\ result.kind = "Ok"
            /\ result.resources[1].image_raw
                  = <<170, 187, 0, 0, 0, 0, 170, 187>>)

C12_Witness ==
    /\ pc = "done"
    /\ data = NextLineInput
    /\ result.kind = "Ok"
    /\ x = 2
    /\ y = 1

\* the header just read is an oversize one
OversizeStep ==
    /\ pc = "image_raw"
    /\ resource.width >= OversizeDim \/ resource.height >= OversizeDim

\* the identifier, the count and the whole offset table can be read
TableReadable(d) ==
    /\ HasCount(d)
    /\ Len(d) >= MagicLen + 8 + 4 * U32At(MagicLen + 4)

\* table entry k points at a copy of GoodBlock
IsGoodEntry(k) ==
    /\ resource_offsets[k] # 0
    /\ CanRead(resource_offsets[k], Len(GoodBlock))
    /\ SubSeq(data, resource_offsets[k] + 1,
              resource_offsets[k] + Len(GoodBlock)) = GoodBlock

\* C13: for an oversize header the opcode loop is never entered: the cursor
\* stays right after the 36 header bytes and the decode goes on with the next
\* table entry; a container whose non-zero entries are all oversize decodes
\* successfully whatever follows their headers; and an entry pointing at the
\* 1 x 1 PixelB sprite yields that sprite whether or not oversize entries
\* precede it.
C13_OversizeReadsNoOpcode ==
    /\ [][OversizeStep =>
            /\ pos = resource.offset + HeaderLen
            /\ pos' = pos
            /\ entry_pos' = entry_pos
            /\ resources' = resources
            /\ idx' = idx + 1
            /\ pc' = "resources"
            /\ result' = NoResult]_vars
    /\ [](pc \in {"image", "paint"} =>
            resource.width < OversizeDim /\ resource.height < OversizeDim)
    /\ []((/\ pc = "done"
           /\ TableReadable(data)
           /\ \A k \in 1..Len(resource_offsets) :
                 resource_offsets[k] = 0 \/ IsOversizeEntry(k))
            => result.kind = "Ok")
    /\ [](result.kind = "Ok" =>
            \A k \in 1..Len(resource_offsets) :
                IsGoodEntry(k) =>
                    \E j \in 1..Len(result.resources) :
                        /\ result.resources[j].index = k - 1
                        /\ result.resources[j].offset = resource_offsets[k]
                        /\ result.resources[j].width = 1
                        /\ result.resources[j].height = 1
                        /\ result.resources[j].image_raw = PixelB)

C13_Witness ==
    /\ result.kind = "Ok"
    /\ Len(resource_offsets) = 2
    /\ IsOversizeEntry(1)
    /\ U8At(resource_offsets[1] + HeaderLen) = 255
    /\ IsGoodEntry(2)
    /\ Len(result.resources) = 1

\* C14: the sprites collected, and those of a returned Container, have
\* strictly increasing index fields, each below the sprite count N.
C14_IndexesIncrease ==
    /\ \A j \in 1..Len(resources) : resources[j].index < total_resources
    /\ \A j \in 1..Len(resources) : \A k \in 1..Len(resources) :
          j < k => resources[j].index < resources[k].index
    /\ result.kind = "Ok" => result.resources = resources

C14_Witness ==
    /\ result.kind = "Ok"
    /\ Len(result.resources) = 2
    /\ result.resources[1].index = 0
    /\ result.resources[2].index = 1

\* C15 (as claimed): every iteration of the opcode loop moves the read cursor
\* forward, and a read of the loop that runs past the end of the buffer ends
\* the decode with the truncation error.
C15_LoopEndsInTruncationError ==
    /\ [][(pc \in {"image", "paint"} /\ pc' # "done") => pos' > pos]_vars
    /\ [][(pc \in {"image", "paint"} /\ ShortRead) =>
            pc' = "done" /\ Truncated(result')]_vars

\* C16: each sprite starts from a new record tagged with the file number and
\* its entry's index and offset, the cursor sought to the entry's offset; its
\* opcode loop starts at (0, 0) on an all-zero canvas with the cursor at
\* offset + 36; and sprites decoded from equal offsets are equal in
\* everything but index.
C16_FreshStatePerSprite ==
    /\ [][(pc = "resources" /\ pc' = "header") =>
            /\ pos' = resource_offsets[idx + 1]
            /\ resource' =
                  [file_num |-> file_number, index |-> idx,
                   offset |-> resource_offsets[idx + 1], len |-> 0,
                   offset_x |-> 0, offset_y |-> 0, width |-> 0, height |-> 0,
                   unknown_1 |-> 0, unknown_2 |-> 0, unknown_3 |-> 0,
                   unknown_4 |-> 0, image_raw |-> <<>>]]_vars
    /\ [][(pc = "image_raw" /\ pc' = "image") =>
            /\ x' = 0
            /\ y' = 0
            /\ pos' = resource.offset + HeaderLen
            /\ \A i \in 1..Len(resource'.image_raw) :
                  resource'.image_raw[i] = 0]_vars
    /\ [](\A j \in 1..Len(resources) : \A k \in 1..Len(resources) :
            resources[j].offset = resources[k].offset =>
                [resources[j] EXCEPT !.index = 0]
                    = [resources[k] EXCEPT !.index = 0])

C16_Witness ==
    /\ result.kind = "Ok"
    /\ Len(result.resources) = 2
    /\ result.resources[1].offset = result.resources[2].offset
    /\ result.resources[1].index # result.resources[2].index
    /\ result.resources[2].image_raw = PixelA \o PixelB
    /\ x = 2

\* Paint 2 pixels, Move-X back one pixel, Paint 1 pixel, End on a 2 x 1 canvas
OverwriteInput ==
    Container(<<1>>, <<Block(2, 1, <<1, 2, 0, 0, 0, 170, 187, 204, 221,
                                     2, 253, 255, 255, 255,
                                     1, 1, 0, 0, 0, 170, 187, 0>>)>>)

\* Paint 1 pixel, End on a 2 x 2 canvas
SparseInput ==
    Container(<<1>>, <<Block(2, 2, <<1, 1, 0, 0, 0, 170, 187, 0>>)>>)

\* C17: the canvas starts all zero; only a Paint pixel changes it, and only in
\* the two bytes at its address, whatever they held; Move-X, Next-line, the
\* Paint count and End leave it alone, and End pushes it as it stands.
C17_OnlyPaintChangesCanvas ==
    /\ [][(pc = "image_raw" /\ pc' = "image") =>
            resource'.image_raw
                = [i \in 1..(resource.width * resource.height * 2) |-> 0]]_vars
    /\ [][pc = "image" =>
            /\ resource' = resource
            /\ resources' # resources =>
                  resources' = Append(resources, resource)]_vars
    /\ [][(pc = "paint" /\ pc' # "done") =>
            /\ Len(resource'.image_raw) = Len(resource.image_raw)
            /\ \A a \in 1..Len(resource.image_raw) :
                  resource'.image_raw[a] =
                      IF a = LiteralAddress + 1 THEN U8At(pos)
                      ELSE IF a = LiteralAddress + 2 THEN U8At(pos + 1)
                      ELSE resource.image_raw[a]]_vars
    /\ []((pc = "done" /\ data = OverwriteInput) =>
            /\ result.kind = "Ok"
            /\ result.resources[1].image_raw = PixelA \o PixelA)
    /\ []((pc = "done" /\ data = SparseInput) =>
            /\ result.kind = "Ok"
            /\ result.resources[1].image_raw = PixelA \o Zeros(6))

C17_Witness ==
    /\ pc = "done"
    /\ data = OverwriteInput
    /\ result.kind = "Ok"

\* the Paint loop is about to write a pixel whose literal address, or the
\* byte after it, lies outside the canvas
OutsideCanvas ==
    /\ pc = "paint"
    /\ CanRead(pos, 2)
    /\ \/ LiteralAddress < 0
       \/ LiteralAddress + 1 >= Len(resource.image_raw)

====
